---- MODULE Spec2Model ----
(***************************************************************************)
(* A model of BetterSQLi: the sqlmap argument builder, the process         *)
(* streamer, the output locator, the file preview, the configuration       *)
(* loaders and the run history store (src/orchestrator/core.py,            *)
(* src/orchestrator/orchestrator.py, src/app.py).                          *)
(*                                                                         *)
(* Python values are encoded as follows.  An optional value is a sequence: *)
(* None is << >> and a value v is << v >>.  A Python str that the code     *)
(* inspects character by character (extra_args, a target token) is a       *)
(* sequence of one-character strings; a command line token is a TLA+       *)
(* string.  A call that may raise returns a record [raised, value].        *)
(***************************************************************************)
EXTENDS Integers, Sequences, FiniteSets, TLC

VARIABLES
    target_url,   \* the target_url argument, as a sequence of symbols
    options,      \* build_sqlmap_args: the options dict
    args,         \* build_sqlmap_args: the outcome of the call
    storage,      \* run_history.json: whether it exists and what it holds
    writable,     \* whether run_history.json can be written
    hpc,          \* per session: the position inside add_run_history_entry
    hlocal,       \* per session: the local variable history
    hentry,       \* per session: the entry being added
    inserted,     \* every entry add_run_history_entry was called with, in call order
    loaded,       \* the outcome of the history panel's load_run_history call
    ui_msgs,      \* the messages shown with st.error and st.warning
    fs,           \* the paths that exist on disk
    loc_target,   \* get_sqlmap_output_dir: the target argument
    located,      \* get_sqlmap_output_dir: the outcome of the call
    pv_file,      \* read_file_preview: the file at path
    pv_max,       \* read_file_preview: the max_lines argument
    pv_pc,        \* read_file_preview: the position in the function
    pv_i,         \* read_file_preview: the index i of the line just read
    pv_lines,     \* read_file_preview: the local list lines
    pv_result,    \* read_file_preview: the returned string
    cfg_file,     \* orchestrator/config.json
    CONFIG,       \* core.CONFIG, set when core is imported
    core_state,   \* the import of core: "not imported", "imported" or the exception
    conf,         \* load_or_create_config: the local variable conf
    cli_pc,       \* load_or_create_config: the position, or the exception raised
    exe_found,    \* whether Popen finds the sqlmap executable
    timeout,      \* run_sqlmap_stream: the timeout argument
    gpc,          \* run_sqlmap_stream: where the generator is suspended
    proc,         \* the sqlmap process: its state and its exit code
    pipe,         \* the lines the process has written and the generator not yet read
    written,      \* the number of lines the process has written
    now,          \* time.time()
    start,        \* run_sqlmap_stream: the local variable start
    chunks,       \* the chunks the generator has yielded
    returncode,   \* run_sqlmap_stream: the local variable returncode
    result,       \* the value the generator returned
    widgets,      \* app.py: the values of the control panel's widgets
    app_pc,       \* app.py: where the script run of a Run press stands
    cli_args,     \* orchestrator.py: the parsed command line
    cli_run,      \* orchestrator.py: where run(args) stands
    baseline,     \* run: what raw_http_0.txt holds
    cli_proc,     \* run_sqlmap: the sqlmap process
    cli_elapsed,  \* run_sqlmap: seconds since proc.wait began
    sqlmap_result,\* run: the dict returned by run_sqlmap
    summary,      \* run: what summary.json holds
    exit_status   \* the exit status of the orchestrator process

argsVars == <<target_url, options, args>>

histVars == <<storage, writable, hpc, hlocal, hentry, inserted, loaded>>

locVars == <<fs, loc_target, located>>

pvVars == <<pv_file, pv_max, pv_pc, pv_i, pv_lines, pv_result>>

cfgVars == <<cfg_file, CONFIG, core_state, conf, cli_pc>>

streamVars ==
    <<exe_found, timeout, gpc, proc, pipe, written, now, start, chunks, returncode, result>>

appVars == <<widgets, app_pc>>

cliVars ==
    <<cli_args, cli_run, baseline, cli_proc, cli_elapsed, sqlmap_result, summary, exit_status>>

vars == <<argsVars, histVars, ui_msgs, locVars, pvVars, cfgVars, streamVars, appVars, cliVars>>

-----------------------------------------------------------------------------
(* Python values *)

None == << >>

Some(v) == <<v>>

\* Python truthiness of an optional int: None and 0 are falsy.
TruthyInt(o) == o # None /\ o[1] # 0

\* Python truthiness of an optional str: None and "" are falsy.
TruthyStr(o) == o # None /\ o[1] # ""

\* Python truthiness of an optional str held as a character sequence.
TruthyChars(o) == o # None /\ Len(o[1]) > 0

Returned(v) == [raised |-> "", value |-> v]

Raised(e) == [raised |-> e, value |-> << >>]

NotCalled == [raised |-> "not called", value |-> << >>]

\* A parsed JSON object of the configuration: the keys it may hold.
ConfigObject(base, cookies) == [kind |-> "object", base |-> base, cookies |-> cookies]

EmptyConfig == ConfigObject(None, None)

\* The configuration loaders before any call, with no configuration file.
CfgUnused ==
    /\ cfg_file = [kind |-> "missing", base |-> None, cookies |-> None]
    /\ CONFIG = EmptyConfig
    /\ core_state = "not imported"
    /\ conf = EmptyConfig
    /\ cli_pc = "not called"

NoProcess == [state |-> "none", code |-> 0]

\* run_sqlmap_stream before any call.
StreamUnused ==
    /\ exe_found = TRUE
    /\ timeout = None
    /\ gpc = "not called"
    /\ proc = NoProcess
    /\ pipe = << >>
    /\ written = 0
    /\ now = 0
    /\ start = 0
    /\ chunks = << >>
    /\ returncode = None
    /\ result = NotCalled

\* The control panel as the script first draws it (app.py lines 95-124),
\* Run not pressed.
AppUnused ==
    /\ widgets = [target_url |-> <<"http", ":", "/", "/", "192.168.56.10", "/",
                                   "vulnerabilities", "/", "sqli", "/", "?id=1">>,
                  dbs |-> FALSE, selected_db |-> << >>, tables |-> FALSE,
                  columns |-> FALSE, users |-> FALSE, passwords |-> FALSE,
                  roles |-> FALSE, dump |-> FALSE, dump_all |-> FALSE, confirm |-> "",
                  selected_table |-> << >>, threads |-> 1, level |-> None,
                  risk |-> None, extra_args |-> << >>]
    /\ app_pc = "idle"

\* The orchestrator script before it is started.
CliUnused ==
    /\ cli_args = [url |-> "", method |-> "GET", extra_args |-> None, timeout |-> 600]
    /\ cli_run = "not started"
    /\ baseline = "none"
    /\ cli_proc = NoProcess
    /\ cli_elapsed = 0
    /\ sqlmap_result = None
    /\ summary = None
    /\ exit_status = None

\* read_file_preview before any call.
PvUnused ==
    /\ pv_file = [readable |-> FALSE, lines |-> << >>]
    /\ pv_max = 0
    /\ pv_pc = "not called"
    /\ pv_i = 0
    /\ pv_lines = << >>
    /\ pv_result = ""

\* The output locator before any call, on an empty disk.
LocUnused == fs = {} /\ loc_target = << >> /\ located = NotCalled

\* The strings over an alphabet of at most n characters.
CharSeqs(alphabet, n) == UNION {[1..k -> alphabet] : k \in 0..n}

Digits == <<"0", "1", "2", "3", "4", "5", "6", "7", "8", "9">>

\* str(n) for a non-negative int.
RECURSIVE str(_)
str(n) == IF n < 10 THEN Digits[n + 1] ELSE str(n \div 10) \o Digits[(n % 10) + 1]

-----------------------------------------------------------------------------
(* shlex.split(s), POSIX mode, comments off, whitespace_split on *)

Whitespace == {" ", "\t", "\r", "\n"}

Quotes == {"'", "\""}

Escape == "\\"

EscapedQuotes == {"\""}

\* One pass of shlex.read_token over the characters s[i..], carried across
\* tokens as shlex.split does.  state is " " (between tokens), "a" (in a
\* word), a quote character (inside that quote) or Escape (after a
\* backslash, to return to escapedstate).  out are the tokens so far.
RECURSIVE shlex_scan(_, _, _, _, _, _, _)
shlex_scan(s, i, state, escapedstate, token, quoted, out) ==
    IF i > Len(s)
    THEN IF state \in Quotes THEN Raised("ValueError: No closing quotation")
         ELSE IF state = Escape THEN Raised("ValueError: No escaped character")
         ELSE IF state = "a" /\ (token # "" \/ quoted)
              THEN Returned(Append(out, token))
              ELSE Returned(out)
    ELSE LET c == s[i] IN
         IF state = " "
         THEN IF c \in Whitespace
              THEN shlex_scan(s, i + 1, " ", escapedstate, "", FALSE, out)
              ELSE IF c = Escape
              THEN shlex_scan(s, i + 1, Escape, "a", "", FALSE, out)
              ELSE IF c \in Quotes
              THEN shlex_scan(s, i + 1, c, escapedstate, "", FALSE, out)
              ELSE shlex_scan(s, i + 1, "a", escapedstate, c, FALSE, out)
         ELSE IF state \in Quotes
         THEN IF c = state
              THEN shlex_scan(s, i + 1, "a", escapedstate, token, TRUE, out)
              ELSE IF c = Escape /\ state \in EscapedQuotes
              THEN shlex_scan(s, i + 1, Escape, state, token, TRUE, out)
              ELSE shlex_scan(s, i + 1, state, escapedstate, token \o c, TRUE, out)
         ELSE IF state = Escape
         THEN IF escapedstate \in Quotes /\ c # Escape /\ c # escapedstate
              THEN shlex_scan(s, i + 1, escapedstate, escapedstate,
                              (token \o Escape) \o c, quoted, out)
              ELSE shlex_scan(s, i + 1, escapedstate, escapedstate,
                              token \o c, quoted, out)
         ELSE \* state = "a"
              IF c \in Whitespace
              THEN IF token # "" \/ quoted
                   THEN shlex_scan(s, i + 1, " ", escapedstate, "", FALSE,
                                   Append(out, token))
                   ELSE shlex_scan(s, i + 1, " ", escapedstate, "", FALSE, out)
              ELSE IF c \in Quotes
              THEN shlex_scan(s, i + 1, c, escapedstate, token, quoted, out)
              ELSE IF c = Escape
              THEN shlex_scan(s, i + 1, Escape, "a", token, quoted, out)
              ELSE shlex_scan(s, i + 1, "a", escapedstate, token \o c, quoted, out)

shlex_split(s) == shlex_scan(s, 1, " ", "a", "", FALSE, << >>)

-----------------------------------------------------------------------------
(* core.build_sqlmap_args *)

\* What an if statement appends to args: the tokens when the condition
\* holds, nothing otherwise.
AppendIf(cond, tokens) == IF cond THEN tokens ELSE << >>

\* args after the base tokens and the risk, level and threads options.
args_after_tuning(url, o) ==
    <<"sqlmap", "-u", url, "--batch", "--answers=follow=Y">>
        \o (IF TruthyInt(o.risk) THEN <<"--risk", str(o.risk[1])>> ELSE << >>)
        \o (IF TruthyInt(o.level) THEN <<"--level", str(o.level[1])>> ELSE << >>)
        \o (IF TruthyInt(o.threads) THEN <<"--threads", str(o.threads[1])>> ELSE << >>)

\* args after the enumeration options (dbs, tables, columns).
args_after_enumeration(url, o) ==
    args_after_tuning(url, o)
        \o AppendIf(o.dbs, <<"--dbs">>)
        \o (IF o.tables
            THEN IF TruthyStr(o.selected_db)
                 THEN <<"--tables", "-D", o.selected_db[1]>>
                 ELSE <<"--tables">>
            ELSE << >>)
        \o (IF o.columns
            THEN (IF TruthyStr(o.selected_db) THEN <<"-D", o.selected_db[1]>> ELSE << >>)
                 \o (IF TruthyStr(o.selected_table)
                     THEN <<"--columns", "-T", o.selected_table[1]>>
                     ELSE <<"--columns">>)
            ELSE << >>)

\* A builder that appends --passwords before --users.
args_after_quick_swapped(url, o) ==
    args_after_enumeration(url, o)
        \o AppendIf(o.passwords, <<"--passwords">>)
        \o AppendIf(o.users, <<"--users">>)
        \o AppendIf(o.roles, <<"--roles">>)

\* args after the quick enumerations (users, passwords, roles).
args_after_quick(url, o) ==
    args_after_enumeration(url, o)
        \o AppendIf(o.users, <<"--users">>)
        \o AppendIf(o.passwords, <<"--passwords">>)
        \o AppendIf(o.roles, <<"--roles">>)

\* A builder whose dump_all branch keeps the database selector.
args_after_dump_with_selector(url, o) ==
    args_after_quick(url, o)
        \o (IF o.dump_all
            THEN (IF TruthyStr(o.selected_db) THEN <<"-D", o.selected_db[1]>> ELSE << >>)
                 \o <<"--dump-all">>
            ELSE IF o.dump
            THEN (IF TruthyStr(o.selected_db) THEN <<"-D", o.selected_db[1]>> ELSE << >>)
                 \o (IF TruthyStr(o.selected_table)
                     THEN <<"--dump", "-T", o.selected_table[1]>>
                     ELSE <<"--dump">>)
            ELSE << >>)

\* args after the dump options: dump_all takes precedence over dump.
args_after_dump(url, o) ==
    args_after_quick(url, o)
        \o (IF o.dump_all THEN <<"--dump-all">>
            ELSE IF o.dump
            THEN (IF TruthyStr(o.selected_db) THEN <<"-D", o.selected_db[1]>> ELSE << >>)
                 \o (IF TruthyStr(o.selected_table)
                     THEN <<"--dump", "-T", o.selected_table[1]>>
                     ELSE <<"--dump">>)
            ELSE << >>)

\* The whole function: the vector, or the ValueError of shlex.split.
build_sqlmap_args(url, o) ==
    IF ~TruthyChars(o.extra_args) THEN Returned(args_after_dump(url, o))
    ELSE IF shlex_split(o.extra_args[1]).raised # "" THEN shlex_split(o.extra_args[1])
    ELSE Returned(args_after_dump(url, o) \o shlex_split(o.extra_args[1]).value)

-----------------------------------------------------------------------------
(* The run history store of app.py *)

HISTORY_CAP == 100

Sessions == {1, 2}

\* What run_history.json holds: nothing readable as JSON, a JSON list (of
\* run records) or another JSON value.
JsonInvalid == [kind |-> "invalid", items |-> << >>]

JsonList(items) == [kind |-> "list", items |-> items]

JsonOther(kind) == [kind |-> kind, items |-> << >>]

OtherJsonKinds == {"object", "null", "number", "string"}

Missing == [exists |-> FALSE, json |-> JsonInvalid]

File(json) == [exists |-> TRUE, json |-> json]

\* load_run_history: the parsed value of the file, or [] when the file is
\* missing or json.loads raises.  A parseable file is returned as parsed,
\* list or not.
load_run_history(st) ==
    IF st.exists
    THEN IF st.json.kind = "invalid" THEN JsonList(<< >>) ELSE st.json
    ELSE JsonList(<< >>)

\* history[:n] of a Python list.
Slice(items, n) == SubSeq(items, 1, IF Len(items) < n THEN Len(items) ELSE n)

\* A truncation that keeps one record too many.
insert_and_cap_off_by_one(items, entry) == Slice(<<entry>> \o items, HISTORY_CAP + 1)

\* An insert that never truncates.
insert_uncapped(items, entry) == <<entry>> \o items

\* history.insert(0, entry); history = history[:100]
insert_and_cap(items, entry) == Slice(<<entry>> \o items, HISTORY_CAP)

\* save_run_history: write the list, or report the failure with st.error and
\* leave the file as it was (write_text raised when opening the file).
save_run_history(items) ==
    IF writable
    THEN storage' = File(JsonList(items)) /\ UNCHANGED ui_msgs
    ELSE ui_msgs' = ui_msgs \cup {"Unable to save run history"} /\ UNCHANGED storage

MaxInserts == 102

\* add_run_history_entry, line 65: history = load_run_history()
AddLoad(s) ==
    /\ hpc[s] = "idle"
    /\ Len(inserted) < MaxInserts
    /\ hentry' = [hentry EXCEPT ![s] = Len(inserted) + 1]
    /\ inserted' = Append(inserted, Len(inserted) + 1)
    /\ hlocal' = [hlocal EXCEPT ![s] = load_run_history(storage)]
    /\ hpc' = [hpc EXCEPT ![s] = "loaded"]
    /\ UNCHANGED <<storage, writable, loaded, ui_msgs, argsVars, locVars, pvVars, cfgVars, streamVars, appVars, cliVars>>

\* add_run_history_entry, lines 66-68: insert at the front and cap.  A value
\* that is not a list has no insert method: AttributeError.
AddInsert(s) ==
    /\ hpc[s] = "loaded"
    /\ IF hlocal[s].kind = "list"
       THEN /\ hlocal' = [hlocal EXCEPT
                  ![s] = JsonList(insert_and_cap(hlocal[s].items, hentry[s]))]
            /\ hpc' = [hpc EXCEPT ![s] = "capped"]
       ELSE /\ hpc' = [hpc EXCEPT ![s] = "AttributeError"]
            /\ UNCHANGED hlocal
    /\ UNCHANGED <<storage, writable, hentry, inserted, loaded, ui_msgs, argsVars, locVars, pvVars, cfgVars, streamVars, appVars, cliVars>>

\* add_run_history_entry, line 69: save_run_history(history)
AddSave(s) ==
    /\ hpc[s] = "capped"
    /\ save_run_history(hlocal[s].items)
    /\ hpc' = [hpc EXCEPT ![s] = "idle"]
    /\ UNCHANGED <<writable, hlocal, hentry, inserted, loaded, argsVars, locVars, pvVars, cfgVars, streamVars, appVars, cliVars>>

\* The history panel (line 142): history = load_run_history()
PanelLoad ==
    /\ loaded = NotCalled
    /\ loaded' = Returned(load_run_history(storage))
    /\ UNCHANGED <<storage, writable, hpc, hlocal, hentry, inserted, ui_msgs, argsVars, locVars, pvVars, cfgVars, streamVars, appVars, cliVars>>

HistLocals ==
    /\ hpc = [s \in Sessions |-> "idle"]
    /\ hlocal = [s \in Sessions |-> JsonList(<< >>)]
    /\ hentry = [s \in Sessions |-> 0]
    /\ inserted = << >>
    /\ loaded = NotCalled

HistUnused == storage = Missing /\ writable = TRUE /\ HistLocals

\* The options dict with nothing ticked and nothing entered.
DefaultOptions ==
    [dbs |-> FALSE, tables |-> FALSE, columns |-> FALSE, dump |-> FALSE,
     dump_all |-> FALSE, users |-> FALSE, passwords |-> FALSE,
     roles |-> FALSE, selected_db |-> None, selected_table |-> None,
     threads |-> None, level |-> None, risk |-> None, extra_args |-> None]

ArgsUnused ==
    /\ target_url = << >>
    /\ options = DefaultOptions
    /\ args = NotCalled

\* One session adding records to a store that starts empty and can be written.
InitHistory ==
    /\ storage \in {Missing, File(JsonList(<< >>))}
    /\ writable = TRUE
    /\ HistLocals
    /\ ArgsUnused
    /\ LocUnused
    /\ PvUnused
    /\ CfgUnused
    /\ ui_msgs = {}
    /\ StreamUnused
    /\ AppUnused
    /\ CliUnused

NextHistory == AddLoad(1) \/ AddInsert(1) \/ AddSave(1) \/ PanelLoad

SpecHistory == InitHistory /\ [][NextHistory]_vars

\* The newest-first list of the last n of the inserted records.
RECURSIVE NewestFirst(_, _)
NewestFirst(seq, n) ==
    IF n = 0 \/ seq = << >> THEN << >>
    ELSE <<seq[Len(seq)]>> \o NewestFirst(SubSeq(seq, 1, Len(seq) - 1), n - 1)

StoredItems == IF storage.exists THEN storage.json.items ELSE << >>

\* C1: after any sequence of add_run_history_entry calls by one writer from
\* empty storage, the stored list holds at most 100 records, the latest
\* record is first, the records are newest first, and an insert into a full
\* list drops exactly the oldest record: the stored list is the last 100
\* inserted records, newest first.
C1_CappedNewestFirst ==
    hpc[1] = "idle" =>
        /\ Len(StoredItems) <= 100
        /\ inserted # << >> =>
              /\ storage.exists /\ storage.json.kind = "list"
              /\ StoredItems[1] = inserted[Len(inserted)]
        /\ StoredItems = NewestFirst(inserted, 100)

C1_Witness ==
    /\ hpc[1] = "idle"
    /\ Len(inserted) = 101
    /\ Len(StoredItems) = 100
    /\ StoredItems[100] = inserted[2]

\* Every state the history file can be in before the program starts: missing,
\* not JSON, JSON that is not a list, or a list of earlier records (0).
StorageStates ==
    {Missing, File(JsonInvalid)}
        \cup {File(JsonOther(k)) : k \in OtherJsonKinds}
        \cup {File(JsonList(items)) : items \in {<< >>, <<0>>, <<0, 0>>}}

InitStore ==
    /\ storage \in StorageStates
    /\ writable \in BOOLEAN
    /\ HistLocals
    /\ ArgsUnused
    /\ LocUnused
    /\ PvUnused
    /\ CfgUnused
    /\ ui_msgs = {}
    /\ StreamUnused
    /\ AppUnused
    /\ CliUnused

NextStore == AddLoad(1) \/ AddInsert(1) \/ AddSave(1) \/ PanelLoad

SpecStore == InitStore /\ [][NextStore]_vars

MissingOrCorrupt(st) == ~st.exists \/ st.json.kind # "list"

\* C7: in every state of the storage load_run_history returns a list, empty
\* when the storage is missing or corrupt (unparseable, or parseable but not
\* a list), and never raises; add_run_history_entry on missing or corrupt
\* storage succeeds and leaves a stored list holding only the new record.
C7_LoadAlwaysList ==
    [][ /\ loaded' # loaded =>
              /\ loaded'.raised = ""
              /\ loaded'.value.kind = "list"
              /\ MissingOrCorrupt(storage) => loaded'.value.items = << >>
        /\ hpc'[1] # "AttributeError"
        /\ (hpc[1] = "capped" /\ hpc'[1] = "idle" /\ MissingOrCorrupt(storage) /\ writable)
              => storage' = File(JsonList(<<hentry[1]>>))
      ]_vars

-----------------------------------------------------------------------------
(* Two sessions running add_run_history_entry on the same run_history.json *)

MaxRaceInserts == 3

\* The records already stored when the sessions start, newest first.
OldRecords(k) == [i \in 1..k |-> 0 - i]

\* Storage that is missing, empty, or holds 98 to 100 older records.
InitRace ==
    /\ storage \in {Missing} \cup {File(JsonList(OldRecords(k))) : k \in {0, 98, 99, 100}}
    /\ writable = TRUE
    /\ HistLocals
    /\ ArgsUnused
    /\ LocUnused
    /\ PvUnused
    /\ CfgUnused
    /\ ui_msgs = {}
    /\ StreamUnused
    /\ AppUnused
    /\ CliUnused

\* add_run_history_entry begins in session s (a few calls in all).
RaceLoad(s) == Len(inserted) < MaxRaceInserts /\ AddLoad(s)

\* The three steps of either session, in any order the scheduler allows.
NextRace ==
    \E s \in Sessions :
        \/ RaceLoad(s)
        \/ AddInsert(s)
        \/ AddSave(s)

SpecRace == InitRace /\ [][NextRace]_vars

AllIdle == \A s \in Sessions : hpc[s] = "idle"

Stored(e) == \E i \in 1..Len(StoredItems) : StoredItems[i] = e

\* C12: with two sessions interleaving the unprotected load, insert-and-cap
\* and save steps, no interleaving leaves a stored list (or a list about to
\* be saved) longer than 100 records; that some interleaving loses one of two
\* inserted records below the cap is the state C12_LostUpdate.
C12_NeverOverCap ==
    /\ Len(StoredItems) <= HISTORY_CAP
    /\ \A s \in Sessions : hpc[s] = "capped" => Len(hlocal[s].items) <= HISTORY_CAP

\* Both sessions have finished one add_run_history_entry each, fewer than 100
\* records are stored, and one of the two inserted records is not among them.
C12_LostUpdate ==
    /\ AllIdle
    /\ \A s \in Sessions : hentry[s] # 0
    /\ Len(inserted) = 2
    /\ Len(StoredItems) < HISTORY_CAP
    /\ Stored(inserted[1]) # Stored(inserted[2])

-----------------------------------------------------------------------------
(* core.get_sqlmap_output_dir *)

\* A str the code searches is a sequence of symbols: the characters ":" and
\* "/" one by one, any other symbol a run of characters without them.
RECURSIVE Cat(_)
Cat(symbols) == IF symbols = << >> THEN "" ELSE symbols[1] \o Cat(Tail(symbols))

\* s.replace(old, "_") for a pattern old of one to three symbols, scanning
\* from the left without overlap.
RECURSIVE replace(_, _)
replace(s, old) ==
    IF Len(s) < Len(old) THEN s
    ELSE IF SubSeq(s, 1, Len(old)) = old
    THEN <<"_">> \o replace(SubSeq(s, Len(old) + 1, Len(s)), old)
    ELSE <<s[1]>> \o replace(Tail(s), old)

\* target.replace("://", "_").replace("/", "_").replace(":", "_")
sanitized(target) == replace(replace(replace(target, <<":", "/", "/">>), <<"/">>), <<":">>)

\* The components of a path string: the runs between slashes, empty runs
\* dropped (pathlib collapses repeated and trailing slashes).
RECURSIVE components(_, _)
components(s, run) ==
    IF s = << >> THEN (IF run = "" THEN << >> ELSE <<run>>)
    ELSE IF s[1] = "/"
    THEN (IF run = "" THEN << >> ELSE <<run>>) \o components(Tail(s), "")
    ELSE components(Tail(s), run \o s[1])

\* The root of a path string: "/" for a leading slash, "//" for exactly two.
root_of(s) ==
    IF s = << >> \/ s[1] # "/" THEN ""
    ELSE IF Len(s) >= 2 /\ s[2] = "/" /\ (Len(s) = 2 \/ s[3] # "/") THEN "//"
    ELSE "/"

\* core.py line 24: the default of sqlmap_output_base.
DEFAULT_SQLMAP_OUTPUT_BASE ==
    [root |-> "/", parts |-> <<"home", "kali", ".local", "share", "sqlmap", "output">>]

\* base / target of pathlib: an absolute target replaces the base.
joinpath(base, target) ==
    IF root_of(target) # ""
    THEN [root |-> root_of(target), parts |-> components(target, "")]
    ELSE [root |-> base.root, parts |-> base.parts \o components(target, "")]

candidate1(target) == joinpath(DEFAULT_SQLMAP_OUTPUT_BASE, target)

candidate2(target) == joinpath(DEFAULT_SQLMAP_OUTPUT_BASE, sanitized(target))

\* A locator that tries the sanitized directory first.
sanitized_first(target, disk) ==
    IF candidate2(target) \in disk THEN candidate2(target) ELSE candidate1(target)

get_sqlmap_output_dir(target, disk) ==
    IF candidate1(target) \in disk THEN candidate1(target)
    ELSE IF candidate2(target) \in disk THEN candidate2(target)
    ELSE candidate1(target)

MaxTargetLen == 3

TargetSymbols == {"h", ":", "/"}

InitLocator ==
    /\ loc_target \in CharSeqs(TargetSymbols, MaxTargetLen)
    /\ fs \in SUBSET {candidate1(loc_target), candidate2(loc_target)}
    /\ located = NotCalled
    /\ ArgsUnused
    /\ HistUnused
    /\ PvUnused
    /\ CfgUnused
    /\ ui_msgs = {}
    /\ StreamUnused
    /\ AppUnused
    /\ CliUnused

Locate ==
    /\ located = NotCalled
    /\ located' = Returned(get_sqlmap_output_dir(loc_target, fs))
    /\ UNCHANGED <<fs, loc_target, argsVars, histVars, ui_msgs, pvVars, cfgVars, streamVars, appVars, cliVars>>

NextLocator == Locate

SpecLocator == InitLocator /\ [][NextLocator]_vars

\* C9: the result is candidate A (base joined with the raw token) when A
\* exists, otherwise candidate B (base joined with the token whose "://", "/"
\* and ":" are replaced by "_") when B exists, otherwise A; it is never
\* another path, and it is a path that does not exist only when neither A
\* nor B exists.
C9_PrefersRawThenSanitized ==
    located # NotCalled =>
        LET A == joinpath(DEFAULT_SQLMAP_OUTPUT_BASE, loc_target)
            B == joinpath(DEFAULT_SQLMAP_OUTPUT_BASE, sanitized(loc_target))
            r == located.value
        IN  /\ located.raised = ""
            /\ A \in fs => r = A
            /\ (A \notin fs /\ B \in fs) => r = B
            /\ (A \notin fs /\ B \notin fs) => r = A
            /\ r \in {A, B}
            /\ r \notin fs => (A \notin fs /\ B \notin fs)
            /\ \A i \in 1..Len(sanitized(loc_target)) :
                   sanitized(loc_target)[i] \notin {":", "/"}

C9_Witness ==
    /\ located # NotCalled
    /\ candidate1(loc_target) # candidate2(loc_target)
    /\ candidate1(loc_target) \notin fs
    /\ candidate2(loc_target) \in fs
    /\ located.value = candidate2(loc_target)

-----------------------------------------------------------------------------
(* core.read_file_preview *)

\* core.py lines 242 and 247: the max_lines of extract_dump_and_log.
EXTRACT_MAX_LINES == 400

TRUNCATION_MARKER == "... (truncated preview)"

\* A text file of n lines, line k reading "L<k>"; every line ends with a
\* newline but possibly the last.
FileLine(k, newline) == [text |-> "L" \o str(k), newline |-> newline]

FileOf(n, last_newline) ==
    [k \in 1..n |-> FileLine(k, IF k = n THEN last_newline ELSE TRUE)]

\* line.rstrip("\n")
rstrip_newline(line) == line.text

\* "\n".join(lines)
RECURSIVE join_lines(_)
join_lines(lines) ==
    IF lines = << >> THEN ""
    ELSE IF Len(lines) = 1 THEN lines[1]
    ELSE (join_lines(SubSeq(lines, 1, Len(lines) \div 2)) \o "\n")
             \o join_lines(SubSeq(lines, (Len(lines) \div 2) + 1, Len(lines)))

\* A cap test that lets one line too many through.
cap_reached_late(i, max_lines) == i >= max_lines

\* A loop that never stops at the cap.
cap_never_reached(i, max_lines) == FALSE

\* line 81: if i + 1 >= max_lines
cap_reached(i, max_lines) == i + 1 >= max_lines

\* lines 76-78 and 85-86: open the file; a failure is returned as text.
PreviewOpen ==
    /\ pv_pc = "start"
    /\ IF pv_file.readable
       THEN pv_pc' = "loop" /\ UNCHANGED pv_result
       ELSE pv_pc' = "done" /\ pv_result' = "Unable to read file"
    /\ UNCHANGED <<pv_file, pv_max, pv_i, pv_lines, argsVars, histVars, ui_msgs, locVars, cfgVars, streamVars, appVars, cliVars>>

\* lines 79-84: one iteration of the loop; at the cap the marker is appended
\* and the loop left.
PreviewReadLine ==
    /\ pv_pc = "loop"
    /\ pv_i < Len(pv_file.lines)
    /\ pv_i' = pv_i + 1
    /\ IF cap_reached(pv_i, pv_max)
       THEN /\ pv_lines' = pv_lines \o <<rstrip_newline(pv_file.lines[pv_i + 1]),
                                         TRUNCATION_MARKER>>
            /\ pv_result' = join_lines(pv_lines')
            /\ pv_pc' = "done"
       ELSE /\ pv_lines' = Append(pv_lines, rstrip_newline(pv_file.lines[pv_i + 1]))
            /\ UNCHANGED <<pv_result, pv_pc>>
    /\ UNCHANGED <<pv_file, pv_max, argsVars, histVars, ui_msgs, locVars, cfgVars, streamVars, appVars, cliVars>>

\* lines 79 and 84: the file is exhausted; return the lines read.
PreviewEndOfFile ==
    /\ pv_pc = "loop"
    /\ pv_i = Len(pv_file.lines)
    /\ pv_result' = join_lines(pv_lines)
    /\ pv_pc' = "done"
    /\ UNCHANGED <<pv_file, pv_max, pv_i, pv_lines, argsVars, histVars, ui_msgs, locVars, cfgVars, streamVars, appVars, cliVars>>

MaxFileLines == 6

MaxPreviewArg == 4

\* Calls with a small file and a small positive max_lines, and the calls of
\* extract_dump_and_log (max_lines = 400) on files around and beyond the cap.
InitPreview ==
    /\ \/ /\ pv_max \in 1..MaxPreviewArg
          /\ \E n \in 0..MaxFileLines, nl \in BOOLEAN, r \in BOOLEAN :
                pv_file = [readable |-> r, lines |-> FileOf(n, nl)]
       \/ /\ pv_max = EXTRACT_MAX_LINES
          /\ \E n \in {399, 400, 401, 1000} :
                pv_file = [readable |-> TRUE, lines |-> FileOf(n, TRUE)]
    /\ pv_pc = "start"
    /\ pv_i = 0
    /\ pv_lines = << >>
    /\ pv_result = ""
    /\ ArgsUnused
    /\ HistUnused
    /\ LocUnused
    /\ CfgUnused
    /\ ui_msgs = {}
    /\ StreamUnused
    /\ AppUnused
    /\ CliUnused

NextPreview == PreviewOpen \/ PreviewReadLine \/ PreviewEndOfFile

SpecPreview == InitPreview /\ [][NextPreview]_vars

FileTexts(k) == [j \in 1..k |-> "L" \o str(j)]

\* C10: for a readable file of n lines, n > max_lines gives exactly the first
\* max_lines lines in file order followed by one truncation marker line, and
\* n < max_lines gives exactly the n lines and no marker.
C10_PreviewTruncation ==
    (pv_pc = "done" /\ pv_file.readable) =>
        LET n == Len(pv_file.lines) IN
        /\ n > pv_max =>
              /\ pv_lines = FileTexts(pv_max) \o <<"... (truncated preview)">>
              /\ pv_result = join_lines(pv_lines)
        /\ n < pv_max =>
              /\ pv_lines = FileTexts(n)
              /\ pv_result = join_lines(pv_lines)

C10_Witness ==
    /\ pv_pc = "done"
    /\ Len(pv_file.lines) = 1000
    /\ pv_max = 400
    /\ Len(pv_lines) = 401
    /\ pv_lines[401] = TRUNCATION_MARKER

HasMarker == \E i \in 1..Len(pv_lines) : pv_lines[i] = TRUNCATION_MARKER

PreviewDone == pv_pc = "done" /\ pv_file.readable

\* C15 as stated: the preview holds the truncation marker only when a line
\* of the file was left out; a file of exactly max_lines lines is previewed
\* in full with no marker.
C15_MarkerOnlyWhenLinesLeftOut ==
    PreviewDone =>
        /\ HasMarker => Len(pv_file.lines) > pv_max
        /\ Len(pv_file.lines) = pv_max =>
              /\ pv_lines = FileTexts(pv_max)
              /\ pv_result = join_lines(pv_lines)

\* C15 amended: for max_lines >= 1 the preview holds the truncation marker
\* exactly when the file has at least max_lines lines; a file of exactly
\* max_lines lines is previewed in full and the marker follows, although no
\* line was left out.
C15_MarkerWhenCapReached ==
    PreviewDone =>
        /\ HasMarker <=> Len(pv_file.lines) >= pv_max
        /\ Len(pv_file.lines) = pv_max =>
              /\ pv_lines = FileTexts(pv_max) \o <<TRUNCATION_MARKER>>
              /\ pv_result = join_lines(pv_lines)

C15_Witness ==
    /\ PreviewDone
    /\ pv_max = EXTRACT_MAX_LINES
    /\ Len(pv_file.lines) = pv_max
    /\ HasMarker

-----------------------------------------------------------------------------
(* The configuration loaders: core.load_config and
   orchestrator.load_or_create_config, both on orchestrator/config.json *)

\* JSON values that are not objects.
NonObjectKinds == {"list", "string", "null", "number"}

\* A configuration file: missing, not JSON ("invalid"), a JSON object, or
\* JSON that is not an object.
ConfigFiles ==
    {[kind |-> k, base |-> None, cookies |-> None] :
        k \in {"missing", "invalid"} \cup NonObjectKinds}
        \cup {ConfigObject(b, c) :
                 b \in {None, Some("/out"), Some("/srv/sqlmap")},
                 c \in {None, Some([PHPSESSID |-> "abc", security |-> "low"])}}

\* core.load_config: {} when the file is missing or json.loads raises, else
\* the parsed value.
load_config(file) ==
    IF file.kind \in {"missing", "invalid"} THEN EmptyConfig ELSE file

\* core.py lines 20-25: CONFIG = load_config(), then CONFIG.get(...), which a
\* value that is not a dict does not have.
CoreImport ==
    /\ core_state = "not imported"
    /\ CONFIG' = load_config(cfg_file)
    /\ core_state' = IF CONFIG'.kind = "object" THEN "imported" ELSE "AttributeError"
    /\ UNCHANGED <<cfg_file, conf, cli_pc, argsVars, histVars, ui_msgs, locVars, pvVars, streamVars, appVars, cliVars>>

\* load_or_create_config lines 38-41: json.loads is not guarded, {} only
\* when the file is missing.
cli_parse(file) ==
    IF file.kind = "missing" THEN Returned(EmptyConfig)
    ELSE IF file.kind = "invalid" THEN Raised("JSONDecodeError")
    ELSE Returned(file)

\* load_or_create_config lines 38-44: load, then test for the cookies key
\* ("cookies" not in conf is a TypeError for null and for a number).
CliLoad ==
    /\ cli_pc = "not called"
    /\ IF cli_parse(cfg_file).raised # ""
       THEN cli_pc' = cli_parse(cfg_file).raised /\ UNCHANGED conf
       ELSE /\ conf' = cli_parse(cfg_file).value
            /\ cli_pc' = IF conf'.kind \in {"null", "number"} THEN "TypeError"
                         ELSE IF conf'.cookies = None THEN "prompt"
                         ELSE "returned"
    /\ UNCHANGED <<cfg_file, CONFIG, core_state, argsVars, histVars, ui_msgs, locVars, pvVars, streamVars, appVars, cliVars>>

\* load_or_create_config lines 45-54: ask for the cookies, store them in conf
\* (a TypeError when conf is not a dict) and write the file.
CliPrompt ==
    /\ cli_pc = "prompt"
    /\ \E phpsessid \in {"", "abc", "xyz"}, sec_level \in {"low", "medium", "high"} :
          IF conf.kind # "object"
          THEN cli_pc' = "TypeError" /\ UNCHANGED <<conf, cfg_file>>
          ELSE /\ conf' = [conf EXCEPT
                     !.cookies = Some([PHPSESSID |-> phpsessid, security |-> sec_level])]
               /\ cfg_file' = conf'
               /\ cli_pc' = "returned"
    /\ UNCHANGED <<CONFIG, core_state, argsVars, histVars, ui_msgs, locVars, pvVars, streamVars, appVars, cliVars>>

InitConfig ==
    /\ cfg_file \in ConfigFiles
    /\ CONFIG = EmptyConfig
    /\ core_state = "not imported"
    /\ conf = EmptyConfig
    /\ cli_pc = "not called"
    /\ ArgsUnused
    /\ HistUnused
    /\ LocUnused
    /\ PvUnused
    /\ ui_msgs = {}
    /\ StreamUnused
    /\ AppUnused
    /\ CliUnused

NextConfig == CoreImport \/ CliLoad \/ CliPrompt

SpecConfig == InitConfig /\ [][NextConfig]_vars

\* C8: loading the configuration is never fatal: with a missing or malformed
\* file both core.load_config (at import) and load_or_create_config go on
\* with an empty configuration instead of raising.
C8_ConfigNeverFatal ==
    [][ cfg_file.kind \in {"missing", "invalid"} =>
            /\ core_state' # core_state => (core_state' = "imported" /\ CONFIG' = EmptyConfig)
            /\ (cli_pc = "not called" /\ cli_pc' # cli_pc) =>
                   (cli_pc' = "prompt" /\ conf' = EmptyConfig)
      ]_vars

-----------------------------------------------------------------------------
(* Inputs of the argument builder *)

MaxExtraLen == 3

ExtraAlphabet == {"x", " ", "'", "\\"}

Urls == {<<"http", ":", "/", "/", "10.0.0.1", "/", "?id=1">>, <<"10.0.0.1", ":", "8080">>}

\* The options dict without extra_args: every combination of the flags, the
\* selections and the tuning values.
FlagRecords ==
    [dbs : BOOLEAN, tables : BOOLEAN, columns : BOOLEAN, dump : BOOLEAN,
     dump_all : BOOLEAN, users : BOOLEAN, passwords : BOOLEAN, roles : BOOLEAN,
     selected_db : {None, Some("dvwa")},
     selected_table : {None, Some("users")},
     threads : {None, Some(10)},
     level : {None, Some(5)},
     risk : {None, Some(3)},
     extra_args : {None}]

\* The records that carry extra_args: nothing else set, or everything set that
\* dump_all allows, or everything set that dump allows.
ExtraBases ==
    {r \in FlagRecords :
        \/ /\ ~r.dbs /\ ~r.tables /\ ~r.columns /\ ~r.users /\ ~r.passwords /\ ~r.roles
           /\ ~r.dump /\ ~r.dump_all
           /\ r.selected_db = None /\ r.selected_table = None
           /\ r.threads = None /\ r.level = None /\ r.risk = None
        \/ /\ r.dbs /\ r.tables /\ r.columns /\ r.users /\ r.passwords /\ r.roles
           /\ r.dump # r.dump_all
           /\ r.selected_db # None /\ r.selected_table # None
           /\ r.threads # None /\ r.level # None /\ r.risk # None}

ExtraRecords ==
    {[r EXCEPT !.extra_args = Some(s)] :
        r \in ExtraBases, s \in CharSeqs(ExtraAlphabet, MaxExtraLen)}

OptionRecords == FlagRecords \cup ExtraRecords

InitArgs ==
    /\ target_url \in Urls
    /\ options \in OptionRecords
    /\ args = NotCalled
    /\ HistUnused
    /\ LocUnused
    /\ PvUnused
    /\ CfgUnused
    /\ ui_msgs = {}
    /\ StreamUnused
    /\ AppUnused
    /\ CliUnused

BuildArgs ==
    /\ args = NotCalled
    /\ args' = build_sqlmap_args(Cat(target_url), options)
    /\ UNCHANGED <<target_url, options, histVars, ui_msgs, locVars, pvVars, cfgVars, streamVars, appVars, cliVars>>

NextArgs == BuildArgs

SpecArgs == InitArgs /\ [][NextArgs]_vars

-----------------------------------------------------------------------------
(* core.run_sqlmap_stream: a generator, run by its caller's next() from one
   yield to the next, beside the sqlmap process and the clock *)

Chunk(kind, payload) == [kind |-> kind, payload |-> payload]

\* s.split(sep, 1)[1] when sep occurs in s, else s.
RECURSIVE after_first(_, _)
after_first(s, sep) ==
    IF Len(s) < Len(sep) THEN << >>
    ELSE IF SubSeq(s, 1, Len(sep)) = sep THEN SubSeq(s, Len(sep) + 1, Len(s))
    ELSE after_first(Tail(s), sep)

RECURSIVE contains(_, _)
contains(s, sep) ==
    IF Len(s) < Len(sep) THEN FALSE
    ELSE SubSeq(s, 1, Len(sep)) = sep \/ contains(Tail(s), sep)

\* s.split("/", 1)[0]
RECURSIVE before_slash(_)
before_slash(s) ==
    IF s = << >> \/ s[1] = "/" THEN << >> ELSE <<s[1]>> \o before_slash(Tail(s))

\* lines 208-212: the host part of the target URL.
host_of(url) ==
    before_slash(IF contains(url, <<":", "/", "/">>)
                 THEN after_first(url, <<":", "/", "/">>)
                 ELSE url)

\* A Popen that starts a process whether or not the executable was found.
spawn_outcome_always(found) == [state |-> "running", code |-> 0]

\* lines 171-181: Popen starts the process, or raises FileNotFoundError.
spawn_outcome(found) ==
    IF found THEN [state |-> "running", code |-> 0] ELSE NoProcess

\* proc.kill(): SIGKILL to a running process, nothing to one that has ended.
killed(p) == IF p.state = "running" THEN [state |-> "killed", code |-> -9] ELSE p

\* lines 205-214: call the locator with the host of the target and yield the
\* closing chunk.
Finish(rc) ==
    /\ loc_target' = host_of(target_url)
    /\ located' = Returned(get_sqlmap_output_dir(loc_target', fs))
    /\ chunks' = Append(chunks, Chunk("finished", <<rc, located'.value>>))
    /\ gpc' = "finished yielded"
    /\ UNCHANGED fs

\* lines 166-169: build the arguments (shlex.split may raise ValueError) and
\* yield the command line.
G_Start ==
    /\ gpc = "start"
    /\ args' = build_sqlmap_args(Cat(target_url), options)
    /\ IF args'.raised # ""
       THEN gpc' = "raised" /\ UNCHANGED chunks
       ELSE gpc' = "echo yielded" /\ chunks' = Append(chunks, Chunk("echo", args'.value))
    /\ UNCHANGED <<target_url, options, exe_found, timeout, proc, pipe, written, now,
                   start, returncode, result, histVars, ui_msgs, locVars, pvVars, cfgVars,
                   appVars, cliVars>>

\* lines 170-190: Popen; without the executable yield the diagnostic, else
\* note the start time and go on to read the output.
G_Spawn ==
    /\ gpc = "echo yielded"
    /\ proc' = spawn_outcome(exe_found)
    /\ IF proc'.state = "none"
       THEN /\ chunks' = Append(chunks, Chunk("not found", << >>))
            /\ gpc' = "not found yielded"
            /\ UNCHANGED start
       ELSE /\ start' = now
            /\ gpc' = "reading"
            /\ UNCHANGED chunks
    /\ UNCHANGED <<argsVars, exe_found, timeout, pipe, written, now, returncode, result,
                   histVars, ui_msgs, locVars, pvVars, cfgVars,
                   appVars, cliVars>>

\* lines 183-186: return (-1, None).
G_NotFoundReturn ==
    /\ gpc = "not found yielded"
    /\ returncode' = Some(-1)
    /\ result' = Returned([returncode |-> -1, output_dir |-> None])
    /\ gpc' = "returned"
    /\ UNCHANGED <<argsVars, exe_found, timeout, proc, pipe, written, now, start, chunks,
                   histVars, ui_msgs, locVars, pvVars, cfgVars,
                   appVars, cliVars>>

\* lines 191-192: the next line of proc.stdout arrives and is yielded.
G_ReadLine ==
    /\ gpc = "reading"
    /\ pipe # << >>
    /\ pipe' = Tail(pipe)
    /\ chunks' = Append(chunks, Chunk("line", <<Head(pipe)>>))
    /\ gpc' = "line yielded"
    /\ UNCHANGED <<argsVars, exe_found, timeout, proc, written, now, start, returncode,
                   result, histVars, ui_msgs, locVars, pvVars, cfgVars,
                   appVars, cliVars>>

\* lines 193-197: after a line, the timeout test; past the deadline kill the
\* process and yield the timeout note, else read on.
G_AfterLine ==
    /\ gpc = "line yielded"
    /\ IF TruthyInt(timeout) /\ now - start > timeout[1]
       THEN /\ proc' = killed(proc)
            /\ chunks' = Append(chunks, Chunk("timeout", << >>))
            /\ gpc' = "timeout yielded"
       ELSE /\ gpc' = "reading"
            /\ UNCHANGED <<proc, chunks>>
    /\ UNCHANGED <<argsVars, exe_found, timeout, pipe, written, now, start, returncode,
                   result, histVars, ui_msgs, locVars, pvVars, cfgVars,
                   appVars, cliVars>>

\* lines 191 and 198-214: proc.stdout is exhausted; wait for the process, take
\* its return code and yield the closing chunk.
G_EndOfOutput ==
    /\ gpc = "reading"
    /\ pipe = << >>
    /\ proc.state # "running"
    /\ returncode' = Some(proc.code)
    /\ Finish(proc.code)
    /\ UNCHANGED <<argsVars, exe_found, timeout, proc, pipe, written, now, start, result,
                   histVars, ui_msgs, pvVars, cfgVars,
                   appVars, cliVars>>

\* lines 197-214 after the timeout note: break, wait for the killed process
\* and yield the closing chunk.
G_AfterTimeout ==
    /\ gpc = "timeout yielded"
    /\ returncode' = Some(proc.code)
    /\ Finish(proc.code)
    /\ UNCHANGED <<argsVars, exe_found, timeout, proc, pipe, written, now, start, result,
                   histVars, ui_msgs, pvVars, cfgVars,
                   appVars, cliVars>>

\* lines 200-201: reading the output raises; the exception is yielded as text.
G_ReadRaises ==
    /\ gpc = "reading"
    /\ proc.state = "running"
    /\ chunks' = Append(chunks, Chunk("exception", << >>))
    /\ gpc' = "exception yielded"
    /\ UNCHANGED <<argsVars, exe_found, timeout, proc, pipe, written, now, start,
                   returncode, result, histVars, ui_msgs, locVars, pvVars, cfgVars,
                   appVars, cliVars>>

\* lines 202-214: kill the process, return code -2, yield the closing chunk.
G_AfterException ==
    /\ gpc = "exception yielded"
    /\ proc' = killed(proc)
    /\ returncode' = Some(-2)
    /\ Finish(-2)
    /\ UNCHANGED <<argsVars, exe_found, timeout, pipe, written, now, start, result,
                   histVars, ui_msgs, pvVars, cfgVars,
                   appVars, cliVars>>

\* line 215: return (returncode, output_dir).
G_Return ==
    /\ gpc = "finished yielded"
    /\ result' = Returned([returncode |-> returncode[1],
                           output_dir |-> Some(located.value)])
    /\ gpc' = "returned"
    /\ UNCHANGED <<argsVars, exe_found, timeout, proc, pipe, written, now, start, chunks,
                   returncode, histVars, ui_msgs, locVars, pvVars, cfgVars,
                   appVars, cliVars>>

MaxLines == 2

\* What a line of sqlmap's output can be.
LineTexts == {"[INFO] testing connection", "[ERROR] unable to connect"}

MaxClock == 3

\* The sqlmap process writes a line to its output.
P_Write ==
    /\ proc.state = "running"
    /\ written < MaxLines
    /\ written' = written + 1
    /\ \E text \in LineTexts : pipe' = Append(pipe, text)
    /\ UNCHANGED <<argsVars, exe_found, timeout, gpc, proc, now, start, chunks,
                   returncode, result, histVars, ui_msgs, locVars, pvVars, cfgVars,
                   appVars, cliVars>>

\* The sqlmap process ends by itself.
P_Exit ==
    /\ proc.state = "running"
    /\ \E code \in {0, 1} : proc' = [state |-> "exited", code |-> code]
    /\ UNCHANGED <<argsVars, exe_found, timeout, gpc, pipe, written, now, start, chunks,
                   returncode, result, histVars, ui_msgs, locVars, pvVars, cfgVars,
                   appVars, cliVars>>

\* A second passes while the generator is live.
Tick ==
    /\ gpc \notin {"not called", "returned", "raised"}
    /\ now < MaxClock
    /\ now' = now + 1
    /\ UNCHANGED <<argsVars, exe_found, timeout, gpc, proc, pipe, written, start, chunks,
                   returncode, result, histVars, ui_msgs, locVars, pvVars, cfgVars,
                   appVars, cliVars>>

\* The calls: no option, dump_all, a valid extra argument, and an extra
\* argument with an unclosed quote.
StreamOptions ==
    {r \in FlagRecords :
        /\ ~r.dbs /\ ~r.tables /\ ~r.columns /\ ~r.users /\ ~r.passwords /\ ~r.roles
        /\ ~r.dump
        /\ r.selected_db = None /\ r.selected_table = None
        /\ r.threads = None /\ r.level = None /\ r.risk = None}
    \cup {[r EXCEPT !.extra_args = Some(e)] : r \in {DefaultOptions}, e \in {<<"x">>, <<"x", "'">>}}

InitStream ==
    /\ target_url \in Urls
    /\ options \in StreamOptions
    /\ args = NotCalled
    /\ exe_found \in BOOLEAN
    /\ timeout \in {None, Some(1)}
    /\ gpc = "start"
    /\ proc = NoProcess
    /\ pipe = << >>
    /\ written = 0
    /\ now = 0
    /\ start = 0
    /\ chunks = << >>
    /\ returncode = None
    /\ result = NotCalled
    /\ loc_target = << >>
    /\ located = NotCalled
    /\ fs \in SUBSET {candidate1(host_of(target_url)), candidate2(host_of(target_url))}
    /\ HistUnused
    /\ PvUnused
    /\ CfgUnused
    /\ ui_msgs = {}
    /\ AppUnused
    /\ CliUnused

\* What the caller's iteration makes the generator do.
GeneratorStep ==
    \/ G_Start
    \/ G_Spawn
    \/ G_NotFoundReturn
    \/ G_ReadLine
    \/ G_AfterLine
    \/ G_EndOfOutput
    \/ G_AfterTimeout
    \/ G_AfterException
    \/ G_Return

NextStream == GeneratorStep \/ G_ReadRaises \/ P_Write \/ P_Exit \/ Tick

SpecStream == InitStream /\ [][NextStream]_vars

\* The caller keeps iterating and time passes; the process is free to stay
\* silent and to never end.
FairStream == SpecStream /\ WF_vars(GeneratorStep) /\ WF_vars(Tick)

ChunkKinds == [i \in 1..Len(chunks) |-> chunks[i].kind]

\* C4 as stated: without the executable the stream emits exactly one chunk,
\* the diagnostic, and ends with the not-found status, no output directory,
\* no process spawned and no exception.
C4_SingleDiagnosticChunk ==
    ~exe_found =>
        /\ proc.state = "none"
        /\ \A i \in 1..Len(chunks) : chunks[i].kind = "not found"
        /\ gpc # "raised"
        /\ gpc = "returned" =>
              /\ ChunkKinds = <<"not found">>
              /\ result = Returned([returncode |-> -1, output_dir |-> None])

\* C4 amended: without the executable the stream emits exactly two chunks,
\* the echoed command line and then the diagnostic, and ends with status -1
\* and no output directory, no process having been spawned; the only
\* exception that can reach the caller is the ValueError of an extra_args
\* string that shlex.split rejects, raised before any chunk is emitted.
C4_EchoThenDiagnostic ==
    ~exe_found =>
        /\ proc.state = "none"
        /\ gpc = "raised" =>
              /\ chunks = << >>
              /\ shlex_split(options.extra_args[1]).raised # ""
        /\ gpc = "returned" =>
              /\ ChunkKinds = <<"echo", "not found">>
              /\ result = Returned([returncode |-> -1, output_dir |-> None])
        /\ gpc \in {"start", "echo yielded", "not found yielded", "returned", "raised"}

C4_Witness ==
    /\ ~exe_found
    /\ gpc = "returned"
    /\ ChunkKinds = <<"echo", "not found">>

\* C5: whenever a timeout is given and the process is still running after it
\* has elapsed since streaming began, the process is eventually killed, the
\* timeout chunk emitted and the stream ended, whatever the process writes
\* (set aside: the process ends by itself, or reading its output raises).
C5_TimeoutKills ==
    (TruthyInt(timeout) /\ proc.state = "running" /\ now - start > timeout[1])
        ~> \/ proc.state = "exited"
           \/ \E i \in 1..Len(chunks) : chunks[i].kind = "exception"
           \/ /\ proc.state = "killed"
              /\ \E i \in 1..Len(chunks) : chunks[i].kind = "timeout"
              /\ gpc = "returned"

-----------------------------------------------------------------------------
(* app.py: the script run that follows a press of "Run sqlmap" *)

\* str.strip() on a sequence of symbols: leading and trailing blanks go.
RECURSIVE lstrip(_)
lstrip(s) == IF s # << >> /\ s[1] \in Whitespace THEN lstrip(Tail(s)) ELSE s

RECURSIVE rstrip(_)
rstrip(s) ==
    IF s # << >> /\ s[Len(s)] \in Whitespace THEN rstrip(SubSeq(s, 1, Len(s) - 1)) ELSE s

strip(s) == rstrip(lstrip(s))

\* sep.join(parts)
RECURSIVE join(_, _)
join(parts, sep) ==
    IF parts = << >> THEN ""
    ELSE IF Len(parts) = 1 THEN parts[1]
    ELSE parts[1] \o sep \o join(Tail(parts), sep)

\* str(path)
path_str(path) == path.root \o join(path.parts, "/")

\* A panel on which an unconfirmed dump-all is let through.
never_needs_confirmation(w) == FALSE

\* lines 111-115: the dump-all box is ticked and the text typed is not CONFIRM.
needs_confirmation(w) == w.dump_all /\ w.confirm # "CONFIRM"

\* A panel that passes the box on as it is ticked.
ticked_dump_all(w) == w.dump_all

\* lines 110-116: dump_all as the Run logic sees it, reset to False when the
\* confirmation is missing.
effective_dump_all(w) == w.dump_all /\ ~needs_confirmation(w)

\* lines 172-187: the options dict.
options_of(w) ==
    [dbs |-> w.dbs, tables |-> w.tables, columns |-> w.columns, dump |-> w.dump,
     dump_all |-> effective_dump_all(w),
     users |-> w.users, passwords |-> w.passwords, roles |-> w.roles,
     selected_db |-> IF strip(w.selected_db) = << >> THEN None
                     ELSE Some(Cat(strip(w.selected_db))),
     selected_table |-> IF strip(w.selected_table) = << >> THEN None
                        ELSE Some(Cat(strip(w.selected_table))),
     threads |-> Some(w.threads),
     level |-> IF TruthyInt(w.level) THEN w.level ELSE None,
     risk |-> IF TruthyInt(w.risk) THEN w.risk ELSE None,
     extra_args |-> IF strip(w.extra_args) = << >> THEN None
                    ELSE Some(strip(w.extra_args))]

\* lines 110-117 and 168-198 of the script run with run_btn True: the warning
\* for an unconfirmed dump-all, the error for an empty target, else the
\* options and the call of core.run_sqlmap_stream(target_url, options).
RunPressed ==
    /\ app_pc = "idle"
    /\ ui_msgs' = ui_msgs
          \cup (IF needs_confirmation(widgets)
                THEN {"You must type CONFIRM to enable --dump-all."} ELSE {})
          \cup (IF widgets.target_url = << >>
                THEN {"Please provide a target URL."} ELSE {})
    /\ IF widgets.target_url = << >>
       THEN /\ app_pc' = "blocked"
            /\ UNCHANGED <<target_url, options, gpc>>
       ELSE /\ target_url' = widgets.target_url
            /\ options' = options_of(widgets)
            /\ gpc' = "start"
            /\ app_pc' = "streaming"
    /\ UNCHANGED <<args, exe_found, timeout, proc, pipe, written, now, start, chunks,
                   returncode, result, widgets, histVars, locVars, pvVars, cfgVars,
                   cliVars>>

\* The runs of characters, among those used here, whose lower case holds
\* "error" or "exception".
ErrorRuns == {"[ERROR] unable to connect", "error.php?id=1", "--parse-errors"}

any_error(symbols) == \E i \in 1..Len(symbols) : symbols[i] \in ErrorRuns

\* A scan that looks at the lines of the external tool only.
mentions_error_in_tool_lines(c) == c.kind = "line" /\ any_error(c.payload)

\* Whether the lower-cased text of a chunk holds "error" or "exception": the
\* echo holds the target and the extra arguments, the closing chunk the path
\* of the output directory, the two diagnostics the words themselves.
mentions_error(c) ==
    CASE c.kind = "echo" ->
            \/ any_error(target_url)
            \/ (options.extra_args # None /\ any_error(options.extra_args[1]))
      [] c.kind = "not found" -> TRUE
      [] c.kind = "line" -> any_error(c.payload)
      [] c.kind = "timeout" -> FALSE
      [] c.kind = "exception" -> TRUE
      [] c.kind = "finished" -> any_error(loc_target)

\* lines 198-223: -2 when the loop raised, else -1 when the console text holds
\* "error" or "exception", else 0.
heuristic_returncode ==
    IF gpc = "raised" THEN -2
    ELSE IF \E i \in 1..Len(chunks) : mentions_error(chunks[i]) THEN -1
    ELSE 0

\* lines 209-213 and 226-230: the directory the app detects, as the string
\* kept in res (the output directories hold no files here).
res_output_dir ==
    IF gpc = "raised" THEN "(not detected)"
    ELSE path_str(CHOOSE d \in {get_sqlmap_output_dir(h, fs) : h \in {host_of(target_url)}} : TRUE)

\* line 268: the names of the options that are set, in the dict's order.
summary_names ==
    SelectSeq(<<"dbs", "tables", "columns", "dump", "dump_all", "users", "passwords",
                "roles">>, LAMBDA k : options[k])

\* lines 269-280: the entry recorded for the run.
entry ==
    [target |-> Cat(target_url), options |-> options,
     summary |-> join(summary_names, ", "),
     returncode |-> heuristic_returncode, output_dir |-> res_output_dir,
     dump_path |-> None, dump_preview |-> None, log_path |-> None, log_preview |-> None]

\* lines 198-281 once the generator has ended or raised: the heuristic return
\* code, the results, add_run_history_entry(entry) and the success message.
RunRecorded ==
    /\ app_pc = "streaming"
    /\ gpc \in {"returned", "raised"}
    /\ IF load_run_history(storage).kind # "list"
       THEN /\ app_pc' = "AttributeError"
            /\ UNCHANGED <<storage, ui_msgs>>
       ELSE /\ app_pc' = "recorded"
            /\ storage' = IF writable
                          THEN File(JsonList(insert_and_cap(load_run_history(storage).items,
                                                            entry)))
                          ELSE storage
            /\ ui_msgs' = ui_msgs
                  \cup {"No dump/dvwa/users.csv found in the output directory.",
                        "No log found in the output directory.",
                        "Run finished and recorded to history."}
                  \cup (IF writable THEN {} ELSE {"Unable to save run history"})
    /\ UNCHANGED <<argsVars, writable, hpc, hlocal, hentry, inserted, loaded, locVars,
                   pvVars, cfgVars, streamVars, widgets, cliVars>>

\* The panel as the user has filled it in before pressing Run.
PanelTargets ==
    {<< >>, <<"http", ":", "/", "/", "10.0.0.1", "/", "?id=1">>,
     <<"http", ":", "/", "/", "10.0.0.1", "/", "error.php?id=1">>}

PanelExtras ==
    {<< >>, <<" ">>, <<"x">>, <<"'">>, <<" ", "--dump-all">>, <<"--parse-errors">>}

PanelConfirms == {"", "CONFIRM", "confirm"}

InitApp ==
    /\ app_pc = "idle"
    /\ widgets \in
          [target_url : PanelTargets, dbs : BOOLEAN, selected_db : {<< >>},
           tables : {FALSE}, columns : {FALSE}, users : {FALSE}, passwords : {FALSE},
           roles : {FALSE}, dump : {FALSE}, dump_all : BOOLEAN, confirm : PanelConfirms,
           selected_table : {<< >>}, threads : {1}, level : {None}, risk : {None},
           extra_args : PanelExtras]
    /\ widgets.dump_all \/ widgets.confirm = ""
    /\ ArgsUnused
    /\ exe_found \in BOOLEAN
    /\ timeout = None
    /\ gpc = "not called"
    /\ proc = NoProcess
    /\ pipe = << >>
    /\ written = 0
    /\ now = 0
    /\ start = 0
    /\ chunks = << >>
    /\ returncode = None
    /\ result = NotCalled
    /\ loc_target = << >>
    /\ located = NotCalled
    /\ fs \in SUBSET {candidate1(host_of(widgets.target_url))}
    /\ storage \in {Missing, File(JsonList(<< >>))}
    /\ writable = TRUE
    /\ HistLocals
    /\ PvUnused
    /\ CfgUnused
    /\ ui_msgs = {}
    /\ CliUnused

\* The loop of line 198 drives the generator; it is called without a timeout,
\* so the clock and the timeout branch play no part.
NextApp ==
    \/ RunPressed
    \/ G_Start
    \/ G_Spawn
    \/ G_NotFoundReturn
    \/ G_ReadLine
    \/ G_AfterLine
    \/ G_EndOfOutput
    \/ G_ReadRaises
    \/ G_AfterException
    \/ G_Return
    \/ P_Write
    \/ P_Exit
    \/ RunRecorded

SpecApp == InitApp /\ [][NextApp]_vars

Pressed == app_pc # "idle"

Unconfirmed == widgets.dump_all /\ widgets.confirm # "CONFIRM"

\* C6 as stated: when Run is pressed with an empty target, or with the
\* dump-all box ticked and a confirmation text other than CONFIRM, no sqlmap
\* process is spawned for that press and the problem is reported.
C6_BothBlockTheRun ==
    (Pressed /\ (widgets.target_url = << >> \/ Unconfirmed)) =>
        /\ proc.state = "none"
        /\ ui_msgs # {}

\* C6 amended: a press with an empty target is blocked, with no call of the
\* streamer, no process and the error shown; a press with the dump-all box
\* ticked and a confirmation text other than CONFIRM shows the warning and,
\* when the target is not empty, goes on to the run with the dump_all option
\* off.
C6_EmptyTargetBlocksUnconfirmedProceeds ==
    /\ (Pressed /\ widgets.target_url = << >>) =>
          /\ app_pc = "blocked"
          /\ gpc = "not called"
          /\ proc.state = "none"
          /\ "Please provide a target URL." \in ui_msgs
    /\ (Pressed /\ Unconfirmed) =>
          /\ "You must type CONFIRM to enable --dump-all." \in ui_msgs
          /\ widgets.target_url # << >> =>
                /\ gpc # "not called"
                /\ ~options.dump_all

C6_Witness ==
    /\ Pressed
    /\ Unconfirmed
    /\ proc.state = "running"
    /\ args.raised = ""

Spawned == proc.state # "none"

HasDumpAll(tokens) == \E i \in 1..Len(tokens) : tokens[i] = "--dump-all"

Confirmed == widgets.dump_all /\ widgets.confirm = "CONFIRM"

\* The tokens the extra arguments box contributes (none when it is blank).
ExtraTokens ==
    IF strip(widgets.extra_args) = << >> THEN << >>
    ELSE shlex_split(strip(widgets.extra_args)).value

\* C13 as stated: the argument vector of a process spawned from the control
\* panel holds --dump-all only if the box was ticked and the confirmation
\* text was exactly CONFIRM, whatever the extra arguments.
C13_DumpAllOnlyIfConfirmed ==
    (Spawned /\ HasDumpAll(args.value)) => Confirmed

\* C13 amended: the argument vector of a process spawned from the control
\* panel holds --dump-all exactly when the box was ticked and confirmed with
\* CONFIRM, or the extra arguments tokenize to a token --dump-all, which is
\* appended without any confirmation.
C13_DumpAllIffConfirmedOrExtra ==
    Spawned => (HasDumpAll(args.value) <=> (Confirmed \/ HasDumpAll(ExtraTokens)))

C13_Witness ==
    /\ Spawned
    /\ Unconfirmed
    /\ HasDumpAll(args.value)

HasChunk(kind) == \E i \in 1..Len(chunks) : chunks[i].kind = kind

\* The external tool wrote a line holding "error" or "exception", read by
\* the app or still unread.
ToolWroteError ==
    \/ \E i \in 1..Len(chunks) : chunks[i].kind = "line" /\ any_error(chunks[i].payload)
    \/ any_error(pipe)

\* A run that was recorded, had its process spawned and whose stream ended
\* without an exception, raised to the app or caught by the streamer.
RecordedCleanRun ==
    /\ app_pc = "recorded"
    /\ Spawned
    /\ gpc = "returned"
    /\ ~HasChunk("exception")

RecordedCode == StoredItems[1].returncode

\* C14 as stated: for a recorded run whose process was spawned and whose
\* stream ended without raising, the recorded code is -1 exactly when the
\* text written by the external tool holds "error" or "exception", else 0;
\* the streamer's own chunks do not change it.
C14_CodeFromToolTextOnly ==
    RecordedCleanRun => RecordedCode = (IF ToolWroteError THEN -1 ELSE 0)

\* C14 amended: for a recorded run whose process was spawned and whose stream
\* ended without raising to the app, the recorded code is -1 exactly when a
\* line read from the tool, the target URL, the extra arguments or an
\* exception note of the streamer holds "error" or "exception", else 0.
C14_CodeFromWholeConsole ==
    (app_pc = "recorded" /\ Spawned /\ gpc = "returned") =>
        RecordedCode =
            (IF \/ \E i \in 1..Len(chunks) :
                      chunks[i].kind = "line" /\ any_error(chunks[i].payload)
                \/ any_error(widgets.target_url)
                \/ any_error(strip(widgets.extra_args))
                \/ HasChunk("exception")
             THEN -1 ELSE 0)

C14_Witness ==
    /\ RecordedCleanRun
    /\ ~ToolWroteError
    /\ HasChunk("line")
    /\ RecordedCode = -1

-----------------------------------------------------------------------------
(* orchestrator.py: one invocation of the command line tool, run(args) *)

\* run lines 137-139 when load_or_create_config raised: the traceback ends
\* the interpreter with status 1.
CliCrash ==
    /\ cli_run = "not started"
    /\ cli_pc \in {"JSONDecodeError", "TypeError"}
    /\ cli_run' = "exited"
    /\ exit_status' = Some(1)
    /\ UNCHANGED <<cli_args, baseline, cli_proc, cli_elapsed, sqlmap_result, summary,
                   argsVars, histVars, ui_msgs, locVars, pvVars, cfgVars, streamVars,
                   appVars>>

\* run lines 140-164: the run directory, its config.json and the baseline
\* request, whose failure is caught and written to raw_http_0.txt.
CliBaseline ==
    /\ cli_run = "not started"
    /\ cli_pc = "returned"
    /\ \E outcome \in {"response", "ERROR"} : baseline' = outcome
    /\ cli_run' = "baseline done"
    /\ UNCHANGED <<cli_args, cli_proc, cli_elapsed, sqlmap_result, summary, exit_status,
                   argsVars, histVars, ui_msgs, locVars, pvVars, cfgVars, streamVars,
                   appVars>>

\* run_sqlmap lines 94-104: Popen, then proc.wait(timeout); a missing
\* executable is a FileNotFoundError nothing catches.
CliSpawn ==
    /\ cli_run = "baseline done"
    /\ cli_proc' = spawn_outcome(exe_found)
    /\ IF cli_proc'.state = "none"
       THEN cli_run' = "exited" /\ exit_status' = Some(1)
       ELSE cli_run' = "waiting" /\ UNCHANGED exit_status
    /\ UNCHANGED <<cli_args, baseline, cli_elapsed, sqlmap_result, summary,
                   argsVars, histVars, ui_msgs, locVars, pvVars, cfgVars, streamVars,
                   appVars>>

\* What sqlmap can exit with by itself.
ExitCodes == {0, 1, 2}

\* The sqlmap process ends by itself.
CliProcExit ==
    /\ cli_proc.state = "running"
    /\ \E code \in ExitCodes : cli_proc' = [state |-> "exited", code |-> code]
    /\ UNCHANGED <<cli_args, cli_run, baseline, cli_elapsed, sqlmap_result, summary,
                   exit_status, argsVars, histVars, ui_msgs, locVars, pvVars, cfgVars,
                   streamVars, appVars>>

\* A second passes while run_sqlmap waits.
CliTick ==
    /\ cli_run = "waiting"
    /\ cli_elapsed < cli_args.timeout
    /\ cli_elapsed' = cli_elapsed + 1
    /\ UNCHANGED <<cli_args, cli_run, baseline, cli_proc, sqlmap_result, summary,
                   exit_status, argsVars, histVars, ui_msgs, locVars, pvVars, cfgVars,
                   streamVars, appVars>>

\* run_sqlmap lines 103-116: proc.wait returns once the process has ended,
\* or raises TimeoutExpired at the timeout, after which the process is killed
\* and waited for; the dict with proc.returncode is returned.
CliWaitEnds ==
    /\ cli_run = "waiting"
    /\ cli_proc.state = "exited" \/ cli_elapsed >= cli_args.timeout
    /\ cli_proc' = killed(cli_proc)
    /\ sqlmap_result' = Some([returncode |-> cli_proc'.code])
    /\ cli_run' = "sqlmap ended"
    /\ UNCHANGED <<cli_args, baseline, cli_elapsed, summary, exit_status,
                   argsVars, histVars, ui_msgs, locVars, pvVars, cfgVars, streamVars,
                   appVars>>

\* run lines 167-184 and the end of the script: summary.json is written with
\* sqlmap_returncode, run returns None and the interpreter ends with status 0.
CliFinish ==
    /\ cli_run = "sqlmap ended"
    /\ summary' = Some([sqlmap_returncode |-> sqlmap_result[1].returncode,
                        cookies_used |-> conf.cookies[1]])
    /\ cli_run' = "exited"
    /\ exit_status' = Some(0)
    /\ UNCHANGED <<cli_args, baseline, cli_proc, cli_elapsed, sqlmap_result,
                   argsVars, histVars, ui_msgs, locVars, pvVars, cfgVars, streamVars,
                   appVars>>

MaxCliTimeout == 2

\* One invocation: any configuration file, sqlmap installed or not, a
\* timeout of a few seconds.
InitCli ==
    /\ cfg_file \in ConfigFiles
    /\ CONFIG = EmptyConfig
    /\ core_state = "not imported"
    /\ conf = EmptyConfig
    /\ cli_pc = "not called"
    /\ cli_args \in [url : {"http://10.0.0.1/?id=1"}, method : {"GET"},
                     extra_args : {None}, timeout : 1..MaxCliTimeout]
    /\ cli_run = "not started"
    /\ baseline = "none"
    /\ cli_proc = NoProcess
    /\ cli_elapsed = 0
    /\ sqlmap_result = None
    /\ summary = None
    /\ exit_status = None
    /\ ArgsUnused
    /\ HistUnused
    /\ LocUnused
    /\ PvUnused
    /\ ui_msgs = {}
    /\ exe_found \in BOOLEAN
    /\ timeout = None
    /\ gpc = "not called"
    /\ proc = NoProcess
    /\ pipe = << >>
    /\ written = 0
    /\ now = 0
    /\ start = 0
    /\ chunks = << >>
    /\ returncode = None
    /\ result = NotCalled
    /\ AppUnused

NextCli ==
    \/ CliLoad
    \/ CliPrompt
    \/ CliCrash
    \/ CliBaseline
    \/ CliSpawn
    \/ CliProcExit
    \/ CliTick
    \/ CliWaitEnds
    \/ CliFinish

SpecCli == InitCli /\ [][NextCli]_vars

\* C11: every invocation that reaches the sqlmap run ends with an exit
\* status equal to the sqlmap process's exit code, a non-zero code and the
\* code of a process killed on timeout included.
C11_ExitStatusIsSqlmapCode ==
    (cli_run = "exited" /\ sqlmap_result # None) =>
        exit_status = Some(sqlmap_result[1].returncode)

-----------------------------------------------------------------------------
(* Properties of the argument builder *)

ArgsReturned == args # NotCalled /\ args.raised = ""

\* The tokens of a vector after the target URL (position 3).
TokensAfterUrl(v) == {v[i] : i \in 4..Len(v)}

FlagIf(b, flag) == IF b THEN <<flag>> ELSE << >>

ValueIf(o, flag) == IF o # None THEN <<flag, str(o[1])>> ELSE << >>

DbSelector(o) == IF o.selected_db # None THEN <<"-D", o.selected_db[1]>> ELSE << >>

TablesGroup(o) == IF o.tables THEN <<"--tables">> \o DbSelector(o) ELSE << >>

ColumnsGroup(o) ==
    IF ~o.columns THEN << >>
    ELSE DbSelector(o) \o
         (IF o.selected_table # None
          THEN <<"--columns", "-T", o.selected_table[1]>> ELSE <<"--columns">>)

DumpGroup(o) ==
    IF o.dump_all THEN <<"--dump-all">>
    ELSE IF ~o.dump THEN << >>
    ELSE DbSelector(o) \o
         (IF o.selected_table # None
          THEN <<"--dump", "-T", o.selected_table[1]>> ELSE <<"--dump">>)

DumpAllCase == ArgsReturned /\ options.dump_all /\ ~TruthyChars(options.extra_args)

\* C2 as stated: with dump_all set and empty extra_args the vector contains
\* --dump-all and no -D, no -T and no --dump token, whatever the other flags
\* and selections.
C2_NoSelectorTokens ==
    DumpAllCase =>
        LET toks == {args.value[i] : i \in 1..Len(args.value)} IN
        "--dump-all" \in toks /\ "-D" \notin toks /\ "-T" \notin toks
            /\ "--dump" \notin toks

\* C2 amended: with dump_all set and empty extra_args the vector ends with
\* --dump-all, the only token the dump options add (no --dump after the
\* URL); after the URL a -D token is present exactly when tables or columns
\* is set with a database selected, and a -T token exactly when columns is
\* set with a table selected.
C2_DumpAllAddsOneToken ==
    DumpAllCase =>
        LET v == args.value
            toks == TokensAfterUrl(v)
        IN  /\ v[Len(v)] = "--dump-all"
            /\ Cardinality({i \in 4..Len(v) : v[i] = "--dump-all"}) = 1
            /\ "--dump" \notin toks
            /\ ("-D" \in toks) <=>
                   ((options.tables \/ options.columns) /\ options.selected_db # None)
            /\ ("-T" \in toks) <=>
                   (options.columns /\ options.selected_table # None)

C2_Witness ==
    /\ DumpAllCase
    /\ options.dump /\ ~options.tables /\ ~options.columns
    /\ options.selected_db # None /\ options.selected_table # None

\* C3: the returned vector is the concatenation, in this order, of the four
\* base tokens, --risk/--level/--threads (each when set), --dbs, the tables
\* group, the columns group, --users, --passwords, --roles, the dump group
\* and the tokens of extra_args.
C3_FixedOrder ==
    ArgsReturned =>
        args.value =
            <<"sqlmap", "-u", Cat(target_url), "--batch", "--answers=follow=Y">>
            \o ValueIf(options.risk, "--risk")
            \o ValueIf(options.level, "--level")
            \o ValueIf(options.threads, "--threads")
            \o FlagIf(options.dbs, "--dbs")
            \o TablesGroup(options)
            \o ColumnsGroup(options)
            \o FlagIf(options.users, "--users")
            \o FlagIf(options.passwords, "--passwords")
            \o FlagIf(options.roles, "--roles")
            \o DumpGroup(options)
            \o (IF options.extra_args = None THEN << >>
                ELSE shlex_split(options.extra_args[1]).value)

C3_Witness ==
    /\ ArgsReturned
    /\ options.dbs /\ options.tables /\ options.columns /\ options.users
    /\ options.passwords /\ options.roles /\ options.dump /\ ~options.dump_all
    /\ options.risk # None /\ options.level # None /\ options.threads # None
    /\ options.selected_db # None /\ options.selected_table # None
    /\ options.extra_args # None
    /\ Len(shlex_split(options.extra_args[1]).value) = 1

====
